---- MODULE Spec2Model ----
(***************************************************************************)
(* A model of refresh_csv_comparison_tool.py: the filename normaliser,     *)
(* the name->path indexes and their intersection, the tabular diff         *)
(* (compare_dataframes), the global status report loop and the password    *)
(* gate.  Python strings are sequences of one-character strings; a         *)
(* DataFrame is a record [cols, rows] with positional rows; None is the    *)
(* model value NoneV.                                                      *)
(***************************************************************************)
EXTENDS Integers, Sequences, FiniteSets, TLC

VARIABLES
    \* normalize_filename(filename, prefix, suffix_delimiter) and its locals
    filename, prefix, suffix_delimiter, base, name_ext, name_pre, name_out, npc,
    \* compare_dataframes(df1, df2, ignore_cols) and what it returned
    df1, df2, ignore_cols, cmp_out, cpc,
    \* main body: zip name lists, sidebar inputs, maps, common keys, report loop
    zip_ref, zip_target, ref_prefix, tgt_prefix, suffix_sep, ignore_list,
    ref_files_raw, tgt_files_raw, ref_map, tgt_map, common_keys,
    \* reads: per loop iteration begun, whether each read_csv_from_zip returned None
    status_data, reads, loop_i, mpc,
    \* password gate: st.secrets, st.session_state, and the run's outcome
    secret, password_correct, password_key, widget_shown, app_ran,
    last_submit, runs, submits, gpc

vars == << filename, prefix, suffix_delimiter, base, name_ext, name_pre, name_out, npc,
           df1, df2, ignore_cols, cmp_out, cpc,
           zip_ref, zip_target, ref_prefix, tgt_prefix, suffix_sep, ignore_list,
           ref_files_raw, tgt_files_raw, ref_map, tgt_map, common_keys,
           status_data, reads, loop_i, mpc,
           secret, password_correct, password_key, widget_shown, app_ran,
           last_submit, runs, submits, gpc >>

normVars == << filename, prefix, suffix_delimiter, base, name_ext, name_pre, name_out, npc >>
cmpVars  == << df1, df2, ignore_cols, cmp_out, cpc >>
mainVars == << zip_ref, zip_target, ref_prefix, tgt_prefix, suffix_sep, ignore_list,
               ref_files_raw, tgt_files_raw, ref_map, tgt_map, common_keys,
               status_data, reads, loop_i, mpc >>
gateVars == << secret, password_correct, password_key, widget_shown, app_ran,
               last_submit, runs, submits, gpc >>

\* Python None (a record, so it compares with frames and results)
NoneV == [none |-> TRUE]

-----------------------------------------------------------------------------
(* Bounds of the model *)

MaxStem == 3        \* characters of an entry name before its ".csv"
MaxRows == 2        \* rows of a table
MaxEntries == 2     \* entries of one archive
MaxRuns == 4        \* script runs of one session
MaxSubmits == 3     \* password submissions of one session

-----------------------------------------------------------------------------
(* Python str primitives *)

\* Characters in code point order ('-' 45 ... 'x' 120).
CharOrder == << "-", ".", "/", "1", "2", "A", "C", "M", "O", "S", "T", "V", "X",
                "_", "a", "b", "c", "d", "e", "k", "n", "o", "r", "s", "t", "u",
                "v", "x" >>

Ord(c) == CHOOSE i \in 1..Len(CharOrder) : CharOrder[i] = c

\* str.lower() on one character
LowerChar(c) ==
    CASE c = "A" -> "a" [] c = "C" -> "c" [] c = "S" -> "s" [] c = "T" -> "t"
      [] c = "V" -> "v" [] c = "X" -> "x" [] OTHER -> c

Lower(s) == [i \in 1..Len(s) |-> LowerChar(s[i])]

\* s < t for Python str (code point order, a proper prefix sorts first)
StrLess(s, t) ==
    \E i \in 1..(Len(t)) :
        /\ \A j \in 1..(i-1) : j <= Len(s) /\ s[j] = t[j]
        /\ \/ i = Len(s) + 1
           \/ i <= Len(s) /\ Ord(s[i]) < Ord(t[i])

StartsWith(s, p) == Len(p) <= Len(s) /\ SubSeq(s, 1, Len(p)) = p

EndsWith(s, p) == Len(p) <= Len(s) /\ SubSeq(s, Len(s) - Len(p) + 1, Len(s)) = p

\* d occurs in s at (1-based) position i
OccursAt(s, d, i) == i >= 1 /\ i + Len(d) - 1 <= Len(s) /\ SubSeq(s, i, i + Len(d) - 1) = d

\* str.rfind scanning from the right: the 1-based start of the last
\* occurrence of d in s at or before position i, 0 when there is none
RECURSIVE RFindFrom(_, _, _)
RFindFrom(s, d, i) ==
    IF i < 1 THEN 0
    ELSE IF OccursAt(s, d, i) THEN i
    ELSE RFindFrom(s, d, i - 1)

RFind(s, d) == RFindFrom(s, d, Len(s) - Len(d) + 1)

\* `d in s`
Contains(s, d) == \E i \in 1..(Len(s) + 1) : OccursAt(s, d, i)

\* s.rsplit(d, 1)[0]
RSplitHead(s, d) ==
    LET i == RFind(s, d) IN IF i = 0 THEN s ELSE SubSeq(s, 1, i - 1)

\* posixpath.basename: everything after the last '/'
Basename(p) == SubSeq(p, RFind(p, <<"/">>) + 1, Len(p))

\* genericpath._splitext applied to a basename, root part: the last dot starts
\* the extension unless only dots precede it
RECURSIVE SkipLeadingDots(_, _, _)
SkipLeadingDots(p, filenameIndex, dotIndex) ==
    IF filenameIndex < dotIndex
    THEN IF p[filenameIndex] # "."
         THEN SubSeq(p, 1, dotIndex - 1)
         ELSE SkipLeadingDots(p, filenameIndex + 1, dotIndex)
    ELSE p

\* a slip: the extension taken from the first dot (name.split('.')[0])
SplitextFirstDot(p) ==
    IF \E i \in 1..Len(p) : p[i] = "."
    THEN SubSeq(p, 1, (CHOOSE i \in 1..Len(p) : p[i] = "." /\ \A j \in 1..(i-1) : p[j] # ".") - 1)
    ELSE p

SplitextRoot(p) ==
    LET dotIndex == RFind(p, <<".">>)
    IN  IF dotIndex > 0 THEN SkipLeadingDots(p, 1, dotIndex) ELSE p

\* line 184-185
StripPrefix(name, pre) ==
    IF pre # <<>> /\ StartsWith(name, pre)
    THEN SubSeq(name, Len(pre) + 1, Len(name))
    ELSE name

\* a slip: split(delim, 1)[0], which cuts at the first occurrence
StripSuffixFirst(name, delim) ==
    IF delim # <<>> /\ Contains(name, delim)
    THEN SubSeq(name, 1, (CHOOSE i \in 1..Len(name) :
                             OccursAt(name, delim, i)
                             /\ \A j \in 1..(i-1) : ~OccursAt(name, delim, j)) - 1)
    ELSE name

\* line 186-187
StripSuffix(name, delim) ==
    IF delim # <<>> /\ Contains(name, delim)
    THEN RSplitHead(name, delim)
    ELSE name

normalize_filename(f, pre, delim) ==
    StripSuffix(StripPrefix(SplitextRoot(Basename(f)), pre), delim)

-----------------------------------------------------------------------------
(* pandas primitives used by compare_dataframes *)

ToSet(seq) == {seq[i] : i \in 1..Len(seq)}

\* positions of seq whose element satisfies membership in S, in order
RECURSIVE KeepIdx(_, _, _)
KeepIdx(seq, S, i) ==
    IF i > Len(seq) THEN <<>>
    ELSE IF seq[i] \in S THEN <<i>> \o KeepIdx(seq, S, i + 1)
    ELSE KeepIdx(seq, S, i + 1)

\* the frame restricted to the column positions idx, in that order
TakeCols(df, idx) ==
    [cols |-> [j \in 1..Len(idx) |-> df.cols[idx[j]]],
     rows |-> [r \in 1..Len(df.rows) |-> [j \in 1..Len(idx) |-> df.rows[r][idx[j]]]]]

\* df.drop(columns=[c for c in ignore_cols if c in df.columns], errors='ignore')
DropCols(df, ign) == TakeCols(df, KeepIdx(df.cols, ToSet(df.cols) \ ign, 1))

\* a slip: only the numbers of columns compared
SchemaDiffersByCount(c1, c2) == Len(c1) # Len(c2)

\* set(df1.columns) != set(df2.columns)
SchemaDiffers(c1, c2) == ToSet(c1) # ToSet(c2)

\* the position that column number k of the sorted order has in cols
SortedPos(cols, k) ==
    CHOOSE i \in 1..Len(cols) :
        Cardinality({j \in 1..Len(cols) : StrLess(cols[j], cols[i])}) = k - 1

\* df.sort_index(axis=1): columns in lexicographic order, cells moved with them
SortCols(df) == TakeCols(df, [k \in 1..Len(df.cols) |-> SortedPos(df.cols, k)])

SourceCol == <<"_", "s", "o", "u", "r", "c", "e">>

\* df['_source'] = tag: overwrite the column when present, else append it
AssignSource(df, tag) ==
    IF SourceCol \in ToSet(df.cols)
    THEN [cols |-> df.cols,
          rows |-> [r \in 1..Len(df.rows) |->
                      [j \in 1..Len(df.cols) |->
                          IF df.cols[j] = SourceCol THEN tag ELSE df.rows[r][j]]]]
    ELSE [cols |-> Append(df.cols, SourceCol),
          rows |-> [r \in 1..Len(df.rows) |-> Append(df.rows[r], tag)]]

\* pd.concat([df1, df2], ignore_index=True) of two frames with the same columns
Concat(a, b) == [cols |-> a.cols, rows |-> a.rows \o b.rows]

\* [c for c in df_all.columns if c != '_source'], as column positions
CompareCols(cols) == KeepIdx(cols, ToSet(cols) \ {SourceCol}, 1)

RowKey(row, idx) == [j \in 1..Len(idx) |-> row[idx[j]]]

\* DataFrame.duplicated(subset, keep=False): row r equals another row on subset
Duplicated(rows, subset, r) ==
    \E q \in 1..Len(rows) : q # r /\ RowKey(rows[q], subset) = RowKey(rows[r], subset)

RECURSIVE KeepRows(_, _, _)
KeepRows(rows, subset, r) ==
    IF r > Len(rows) THEN <<>>
    ELSE IF Duplicated(rows, subset, r) THEN KeepRows(rows, subset, r + 1)
    ELSE <<r>> \o KeepRows(rows, subset, r + 1)

\* df_all.drop_duplicates(subset=compare_cols, keep=False).  An empty frame is
\* copied; on a frame with rows, duplicated() unpacks one (labels, shape)
\* pair per subset column and raises ValueError when subset is empty.
DropDuplicates(df, subset) ==
    IF df.rows = <<>> THEN [raised |-> FALSE, cols |-> df.cols, index |-> <<>>, rows |-> <<>>]
    ELSE IF subset = <<>> THEN [raised |-> TRUE]
    ELSE LET keep == KeepRows(df.rows, subset, 1)
         IN  [raised |-> FALSE, cols |-> df.cols, index |-> keep,
              rows |-> [k \in 1..Len(keep) |-> df.rows[keep[k]]]]

\* line 208
IsReadError(d1, d2) == d1 = NoneV \/ d2 = NoneV

\* a slip: Match returned without the (empty) delta
ClassifyDropsDelta(diff_df) ==
    IF diff_df.rows = <<>> THEN [status |-> "Match", delta |-> NoneV, dedup |-> TRUE]
    ELSE [status |-> "Data Mismatch", delta |-> diff_df, dedup |-> TRUE]

\* lines 228-231
Classify(diff_df) ==
    IF diff_df.rows = <<>> THEN [status |-> "Match", delta |-> diff_df, dedup |-> TRUE]
    ELSE [status |-> "Data Mismatch", delta |-> diff_df, dedup |-> TRUE]

\* compare_dataframes; dedup records whether line 226 was executed, and
\* status "raise" stands for an exception leaving the function
compare_dataframes(d1, d2, ign) ==
    IF IsReadError(d1, d2) THEN [status |-> "Error", delta |-> NoneV, dedup |-> FALSE]
    ELSE LET a == DropCols(d1, ign)
             b == DropCols(d2, ign)
         IN  IF SchemaDiffers(a.cols, b.cols)
             THEN [status |-> "Schema Diff", delta |-> NoneV, dedup |-> FALSE]
             ELSE LET df_all == Concat(AssignSource(SortCols(a), "OLD"),
                                       AssignSource(SortCols(b), "NEW"))
                      diff_df == DropDuplicates(df_all, CompareCols(df_all.cols))
                  IN  IF diff_df.raised
                      THEN [status |-> "raise", delta |-> NoneV, dedup |-> TRUE]
                      ELSE Classify([cols |-> diff_df.cols, index |-> diff_df.index,
                                     rows |-> diff_df.rows])

\* len(df) / df.shape[0]
NRows(d) == IF d = NoneV THEN 0 ELSE Len(d.rows)

-----------------------------------------------------------------------------
(* The archive index, the name->path maps and their common keys *)

\* sorted(S) for a set of distinct strings
SortedSeq(S) ==
    [k \in 1..Cardinality(S) |->
        CHOOSE x \in S : Cardinality({y \in S : StrLess(y, x)}) = k - 1]

MacPrefix == <<"_", "_", "M", "A", "C", "O", "S", "X">>

\* the filter of line 177
IsTabularEntry(f) == EndsWith(Lower(f), <<".", "c", "s", "v">>) /\ ~StartsWith(f, MacPrefix)

\* get_file_list: the sorted tabular entries, [] when the archive cannot be read
get_file_list(zip) ==
    IF zip = NoneV THEN <<>>
    ELSE SortedSeq({f \in zip.namelist : IsTabularEntry(f)})

EmptyMap == [k \in {} |-> <<>>]

\* a slip: d.setdefault(k, v), which keeps the first entry of a key
PutIfAbsent(m, k, v) ==
    [x \in DOMAIN m \cup {k} |-> IF x \in DOMAIN m THEN m[x] ELSE v]

\* d[k] = v on a dict
Put(m, k, v) == [x \in DOMAIN m \cup {k} |-> IF x = k THEN v ELSE m[x]]

\* {normalize_filename(f, pre, delim): f for f in files}: a left-to-right
\* fold, a later entry overwriting an earlier one with the same key
RECURSIVE BuildMapFrom(_, _, _, _, _)
BuildMapFrom(files, pre, delim, i, m) ==
    IF i > Len(files) THEN m
    ELSE BuildMapFrom(files, pre, delim, i + 1,
                      Put(m, normalize_filename(files[i], pre, delim), files[i]))

BuildMap(files, pre, delim) == BuildMapFrom(files, pre, delim, 1, EmptyMap)

\* a slip: the keys of the old side only, not the intersection
CommonKeysOldOnly(rm, tm) == SortedSeq(DOMAIN rm)

\* sorted(list(set(ref_map.keys()).intersection(set(tgt_map.keys()))))
CommonKeys(rm, tm) == SortedSeq(DOMAIN rm \cap DOMAIN tm)

\* "Mismatch" in status_msg
HasMismatch(status) == status = "Data Mismatch"

\* one record of status_data (lines 329-343)
StatusRecord(key, f_ref, f_tgt, d1, d2, ign) ==
    LET res == compare_dataframes(d1, d2, ign)
        count_diff == IF res.delta # NoneV THEN Len(res.delta.rows) ELSE 0
    IN  [key |-> key, status |-> res.status,
         rows_old |-> NRows(d1), rows_new |-> NRows(d2),
         diff_rows |-> IF HasMismatch(res.status) THEN count_diff ELSE 0,
         old_file |-> f_ref, new_file |-> f_tgt]

-----------------------------------------------------------------------------
(* Inputs *)

\* all strings of at most n characters over chars
Strs(chars, n) == UNION {[1..k -> chars] : k \in 0..n}

CsvExt == <<".", "c", "s", "v">>

\* entry names as get_file_list returns them: they end with ".csv"
StemChars == {"a", "A", "_", ".", "/"}
EntryNames == {st \o CsvExt : st \in Strs(StemChars, MaxStem)}

\* what the sidebar text inputs may hold
Prefixes == {<<>>, <<"a">>, <<"a", "a">>, <<"a", "_">>, <<"A">>, <<".">>}
Delims == {<<>>, <<"_">>, <<"a">>, <<"_", "a">>, <<"a", "a">>, <<".">>}

ColNames == {<<"a">>, <<"b">>}
Values == {0, 1}

\* column lists without repetition, in any order
ColSeqs == {cs \in Strs(ColNames, Cardinality(ColNames)) : Cardinality(ToSet(cs)) = Len(cs)}

\* what read_csv_from_zip returns on success: a frame with zero columns has
\* zero rows (pd.DataFrame()); a frame with columns has any number of rows
TablesOf(cs) ==
    IF cs = <<>> THEN {[cols |-> cs, rows |-> <<>>]}
    ELSE {[cols |-> cs, rows |-> rs] : rs \in Strs([1..Len(cs) -> Values], MaxRows)}

Tables == UNION {TablesOf(cs) : cs \in ColSeqs}

IgnoreSets == SUBSET ColNames

-----------------------------------------------------------------------------
(* Values of the variables a specification does not use *)

NormIdle ==
    /\ filename = <<>> /\ prefix = <<>> /\ suffix_delimiter = <<>>
    /\ base = <<>> /\ name_ext = <<>> /\ name_pre = <<>> /\ name_out = <<>>
    /\ npc = "off"

CmpIdle ==
    /\ df1 = NoneV /\ df2 = NoneV /\ ignore_cols = {} /\ cmp_out = NoneV /\ cpc = "off"

MainIdle ==
    /\ zip_ref = NoneV /\ zip_target = NoneV
    /\ ref_prefix = <<>> /\ tgt_prefix = <<>> /\ suffix_sep = <<>> /\ ignore_list = {}
    /\ ref_files_raw = <<>> /\ tgt_files_raw = <<>>
    /\ ref_map = EmptyMap /\ tgt_map = EmptyMap /\ common_keys = <<>>
    /\ status_data = <<>> /\ reads = <<>> /\ loop_i = 0 /\ mpc = "off"

GateIdle ==
    /\ secret = "absent" /\ password_correct = "absent" /\ password_key = "absent"
    /\ widget_shown = FALSE /\ app_ran = FALSE /\ last_submit = "absent"
    /\ runs = 0 /\ submits = 0 /\ gpc = "off"

-----------------------------------------------------------------------------
(* normalize_filename, one call *)

NormInit ==
    /\ filename \in EntryNames
    /\ prefix \in Prefixes
    /\ suffix_delimiter \in Delims
    /\ base = <<>> /\ name_ext = <<>> /\ name_pre = <<>> /\ name_out = <<>>
    /\ npc = "call"
    /\ CmpIdle /\ MainIdle /\ GateIdle

\* lines 181-188
Normalize ==
    /\ npc = "call"
    /\ base' = Basename(filename)
    /\ name_ext' = SplitextRoot(base')
    /\ name_pre' = StripPrefix(name_ext', prefix)
    /\ name_out' = StripSuffix(name_pre', suffix_delimiter)
    /\ npc' = "returned"
    /\ UNCHANGED << filename, prefix, suffix_delimiter, cmpVars, mainVars, gateVars >>

NormNext == Normalize

SpecNorm == NormInit /\ [][NormNext]_vars

-----------------------------------------------------------------------------
(* compare_dataframes, one call *)

CmpInit ==
    /\ df1 \in Tables \cup {NoneV}
    /\ df2 \in Tables \cup {NoneV}
    /\ ignore_cols \in IgnoreSets
    /\ cmp_out = NoneV
    /\ cpc = "call"
    /\ NormIdle /\ MainIdle /\ GateIdle

\* lines 206-231
Compare ==
    /\ cpc = "call"
    /\ cmp_out' = compare_dataframes(df1, df2, ignore_cols)
    /\ cpc' = "returned"
    /\ UNCHANGED << df1, df2, ignore_cols, normVars, mainVars, gateVars >>

CmpNext == Compare

SpecCompare == CmpInit /\ [][CmpNext]_vars

-----------------------------------------------------------------------------
(* Properties of compare_dataframes, stated on the inputs as given *)

Loaded == df1 # NoneV /\ df2 # NoneV

\* the column names of a table that are not ignored
RemCols(df) == ToSet(df.cols) \ ignore_cols

\* row r of a table as a mapping from each remaining column name to its cell
RowAsMap(df, r) ==
    [c \in RemCols(df) |-> df.rows[r][CHOOSE i \in 1..Len(df.cols) : df.cols[i] = c]]

RowMaps(df) == {RowAsMap(df, r) : r \in 1..Len(df.rows)}

\* rows of the old table equal to no row of the new one, and the converse
OldOnly == {r \in 1..Len(df1.rows) : RowAsMap(df1, r) \notin RowMaps(df2)}
NewOnly == {r \in 1..Len(df2.rows) : RowAsMap(df2, r) \notin RowMaps(df1)}

Returned == cpc = "returned" /\ cmp_out.status # "raise"

\* the provenance tag of row k of the returned delta
DeltaTag(k) ==
    cmp_out.delta.rows[k][CHOOSE j \in 1..Len(cmp_out.delta.cols) :
                              cmp_out.delta.cols[j] = SourceCol]

\* the rows of the old (new) table that the delta reports as removed (added)
RemovedRows ==
    {cmp_out.delta.index[k] : k \in {x \in 1..Len(cmp_out.delta.rows) : DeltaTag(x) = "OLD"}}
AddedRows ==
    {cmp_out.delta.index[k] - Len(df1.rows) :
        k \in {x \in 1..Len(cmp_out.delta.rows) : DeltaTag(x) = "NEW"}}

\* C1: with equal remaining column sets, the OLD-tagged rows of the delta are
\* exactly the old rows equal to no new row, and the NEW-tagged rows exactly
\* the new rows equal to no old row, whatever the multiplicities.
C1_DeltaIsSymmetricDifference ==
    (Returned /\ Loaded /\ RemCols(df1) = RemCols(df2)) =>
        /\ cmp_out.delta # NoneV
        /\ RemovedRows = OldOnly
        /\ AddedRows = NewOnly

\* C2: equal remaining column sets and equal sets of distinct row tuples give
\* status Match with an empty delta, whatever the column order, row order and
\* multiplicities.
C2_SameRowSetsMatch ==
    (cpc = "returned" /\ Loaded /\ RemCols(df1) = RemCols(df2)
        /\ RowMaps(df1) = RowMaps(df2)) =>
        /\ cmp_out.status = "Match"
        /\ cmp_out.delta # NoneV
        /\ cmp_out.delta.rows = <<>>

\* C2 where it does hold: at least one compared column remains, or no rows.
C2_SameRowSetsMatchWithColumns ==
    (cpc = "returned" /\ Loaded /\ RemCols(df1) = RemCols(df2)
        /\ RowMaps(df1) = RowMaps(df2)
        /\ (RemCols(df1) # {} \/ df1.rows \o df2.rows = <<>>)) =>
        /\ cmp_out.status = "Match"
        /\ cmp_out.delta # NoneV
        /\ cmp_out.delta.rows = <<>>

\* C3: differing remaining column sets give Schema Diff with no delta,
\* whatever the rows, and the row comparison (line 226) was never run.
C3_SchemaMismatchFirst ==
    (cpc = "returned" /\ Loaded /\ RemCols(df1) # RemCols(df2)) =>
        /\ cmp_out.status = "Schema Diff"
        /\ cmp_out.delta = NoneV
        /\ cmp_out.dedup = FALSE

C3_Witness ==
    /\ cpc = "returned" /\ Loaded
    /\ RemCols(df1) # RemCols(df2)
    /\ Len(df1.rows) = MaxRows /\ Len(df2.rows) = 1
    /\ ignore_cols # {}
    /\ cmp_out.status = "Schema Diff"

\* C4: status and delta agree in every returned result, and an absent input
\* table gives Error whatever the other table and the ignore set are.
C4_StatusDeltaAgree ==
    Returned =>
        /\ (~Loaded) => cmp_out.status = "Error"
        /\ cmp_out.status \in {"Error", "Schema Diff", "Match", "Data Mismatch"}
        /\ cmp_out.delta = NoneV <=> cmp_out.status \in {"Error", "Schema Diff"}
        /\ (cmp_out.delta # NoneV /\ cmp_out.delta.rows = <<>>) <=> cmp_out.status = "Match"
        /\ (cmp_out.delta # NoneV /\ cmp_out.delta.rows # <<>>)
               <=> cmp_out.status = "Data Mismatch"

C4_Witness ==
    /\ cpc = "returned"
    /\ df1 = NoneV /\ df2 # NoneV /\ df2.rows # <<>> /\ ignore_cols # {}
    /\ cmp_out.status = "Error" /\ cmp_out.delta = NoneV

-----------------------------------------------------------------------------
(* The main body of one script run with both archives uploaded *)

\* names found in uploaded archives
NamePool ==
    { <<"k", "-", "x", "_", "1">> \o CsvExt,
      <<"k", "-", "x", "_", "2">> \o CsvExt,
      <<"x">> \o CsvExt,
      <<"d", "/", "a", ".", "C", "S", "V">>,
      <<"x", ".", "t", "x", "t">>,
      MacPrefix \o <<"/", "x">> \o CsvExt }

\* an uploaded archive: its name list, or None when it cannot be opened
Archives ==
    {[namelist |-> S] : S \in {T \in SUBSET NamePool : Cardinality(T) <= MaxEntries}}
        \cup {NoneV}

\* what read_csv_from_zip may return for an entry
LoadOutcomes ==
    {NoneV} \cup {[cols |-> << <<"a">> >>, rows |-> << <<v>> >>] : v \in Values}

MainInit ==
    /\ zip_ref \in Archives
    /\ zip_target \in Archives
    /\ ref_prefix \in {<<>>, <<"k", "-">>}
    /\ tgt_prefix \in {<<>>, <<"k", "-">>}
    /\ suffix_sep \in {<<>>, <<"_">>}
    /\ ignore_list \in {{}, {<<"a">>}}
    /\ ref_files_raw = <<>> /\ tgt_files_raw = <<>>
    /\ ref_map = EmptyMap /\ tgt_map = EmptyMap /\ common_keys = <<>>
    /\ status_data = <<>> /\ reads = <<>> /\ loop_i = 0
    /\ mpc = "start"
    /\ NormIdle /\ CmpIdle /\ GateIdle

\* lines 300-320: index both archives, build the maps, intersect the keys
BuildMaps ==
    /\ mpc = "start"
    /\ ref_files_raw' = get_file_list(zip_ref)
    /\ tgt_files_raw' = get_file_list(zip_target)
    /\ ref_map' = BuildMap(ref_files_raw', ref_prefix, suffix_sep)
    /\ tgt_map' = BuildMap(tgt_files_raw', tgt_prefix, suffix_sep)
    /\ common_keys' = CommonKeys(ref_map', tgt_map')
    /\ status_data' = <<>> /\ reads' = <<>>
    /\ loop_i' = 1
    /\ mpc' = IF common_keys' # <<>> THEN "loop" ELSE "done"
    /\ UNCHANGED << zip_ref, zip_target, ref_prefix, tgt_prefix, suffix_sep, ignore_list,
                    normVars, cmpVars, gateVars >>

\* lines 322-344: one iteration that appends its record
LoopStep ==
    /\ mpc = "loop"
    /\ \E d1 \in LoadOutcomes, d2 \in LoadOutcomes :
          LET key == common_keys[loop_i]
              rec == StatusRecord(key, ref_map[key], tgt_map[key], d1, d2, ignore_list)
          IN  /\ rec.status # "raise"
              /\ status_data' = Append(status_data, rec)
              /\ reads' = Append(reads, <<d1 = NoneV, d2 = NoneV>>)
    /\ loop_i' = loop_i + 1
    /\ mpc' = IF loop_i = Len(common_keys) THEN "done" ELSE "loop"
    /\ UNCHANGED << zip_ref, zip_target, ref_prefix, tgt_prefix, suffix_sep, ignore_list,
                    ref_files_raw, tgt_files_raw, ref_map, tgt_map, common_keys,
                    normVars, cmpVars, gateVars >>

\* lines 326-332: an iteration in which compare_dataframes raises; nothing
\* in the loop catches it, so the script run ends there
LoopRaise ==
    /\ mpc = "loop"
    /\ \E d1 \in LoadOutcomes, d2 \in LoadOutcomes :
          /\ compare_dataframes(d1, d2, ignore_list).status = "raise"
          /\ reads' = Append(reads, <<d1 = NoneV, d2 = NoneV>>)
    /\ mpc' = "crashed"
    /\ UNCHANGED << zip_ref, zip_target, ref_prefix, tgt_prefix, suffix_sep, ignore_list,
                    ref_files_raw, tgt_files_raw, ref_map, tgt_map, common_keys,
                    status_data, loop_i, normVars, cmpVars, gateVars >>

MainNext == BuildMaps \/ LoopStep \/ LoopRaise

SpecMain == MainInit /\ [][MainNext]_vars

-----------------------------------------------------------------------------
(* Properties of the maps, the common keys and the report loop *)

Indexed == mpc \in {"loop", "done", "crashed"}

\* the entries of a side that normalize to key k under that side's rule
RefEntriesOf(k) ==
    {f \in ToSet(ref_files_raw) : normalize_filename(f, ref_prefix, suffix_sep) = k}
TgtEntriesOf(k) ==
    {f \in ToSet(tgt_files_raw) : normalize_filename(f, tgt_prefix, suffix_sep) = k}

RefKeys == {normalize_filename(f, ref_prefix, suffix_sep) : f \in ToSet(ref_files_raw)}
TgtKeys == {normalize_filename(f, tgt_prefix, suffix_sep) : f \in ToSet(tgt_files_raw)}

\* C5: the common keys are strictly increasing (sorted, no repeats), are
\* exactly the keys some old and some new entry normalize to, and each has one
\* old path and one new path that normalize to it.
C5_CommonKeys ==
    Indexed =>
        /\ \A i \in 1..Len(common_keys), j \in 1..Len(common_keys) :
              i < j => StrLess(common_keys[i], common_keys[j])
        /\ ToSet(common_keys) = RefKeys \cap TgtKeys
        /\ \A i \in 1..Len(common_keys) :
              /\ common_keys[i] \in DOMAIN ref_map
              /\ common_keys[i] \in DOMAIN tgt_map
              /\ ref_map[common_keys[i]] \in RefEntriesOf(common_keys[i])
              /\ tgt_map[common_keys[i]] \in TgtEntriesOf(common_keys[i])

C5_Witness ==
    /\ Indexed
    /\ Len(common_keys) = 2
    /\ \E i \in 1..2 : ref_map[common_keys[i]] # tgt_map[common_keys[i]]
    /\ ref_prefix # <<>>

\* f is the last of the set F in the sorted entry list
LastOf(f, F) == f \in F /\ \A g \in F : g = f \/ StrLess(g, f)

\* C6: on a key collision each map keeps only the entry that is last in the
\* sorted entry list, and the report only ever pairs those kept entries.
C6_LastEntryWins ==
    Indexed =>
        /\ DOMAIN ref_map = RefKeys /\ DOMAIN tgt_map = TgtKeys
        /\ \A k \in DOMAIN ref_map : LastOf(ref_map[k], RefEntriesOf(k))
        /\ \A k \in DOMAIN tgt_map : LastOf(tgt_map[k], TgtEntriesOf(k))
        /\ \A i \in 1..Len(status_data) :
              /\ LastOf(status_data[i].old_file, RefEntriesOf(status_data[i].key))
              /\ LastOf(status_data[i].new_file, TgtEntriesOf(status_data[i].key))

C6_Witness ==
    /\ mpc = "done"
    /\ \E k \in DOMAIN ref_map : Cardinality(RefEntriesOf(k)) >= 2
    /\ \E i \in 1..Len(status_data) : Cardinality(RefEntriesOf(status_data[i].key)) >= 2

\* C9: when the loop is over, status_data holds one record per common key, in
\* key order, each with its key and the paths paired to it, and a failed load
\* gave an Error record with row count 0 for that side.
C9_OneRecordPerKey ==
    /\ mpc \in {"loop", "done", "crashed"} => Len(status_data) <= Len(common_keys)
    /\ mpc \in {"done", "crashed"} => Len(status_data) = Len(common_keys)
    /\ \A i \in 1..Len(status_data) :
          /\ status_data[i].key = common_keys[i]
          /\ status_data[i].old_file = ref_map[common_keys[i]]
          /\ status_data[i].new_file = tgt_map[common_keys[i]]
          /\ reads[i][1] =>
                status_data[i].status = "Error" /\ status_data[i].rows_old = 0
          /\ reads[i][2] =>
                status_data[i].status = "Error" /\ status_data[i].rows_new = 0

\* C9 for the iterations that do complete
C9_RecordsSoFar ==
    /\ mpc \in {"loop", "done", "crashed"} => Len(status_data) <= Len(common_keys)
    /\ mpc = "done" => Len(status_data) = Len(common_keys)
    /\ \A i \in 1..Len(status_data) :
          /\ status_data[i].key = common_keys[i]
          /\ status_data[i].old_file = ref_map[common_keys[i]]
          /\ status_data[i].new_file = tgt_map[common_keys[i]]
          /\ reads[i][1] =>
                status_data[i].status = "Error" /\ status_data[i].rows_old = 0
          /\ reads[i][2] =>
                status_data[i].status = "Error" /\ status_data[i].rows_new = 0

-----------------------------------------------------------------------------
(* The password gate over one session *)

Passwords == {"pw1", "pw2", "pw3"}

\* a slip: any submission accepted
password_entered_any(pw, sec) == [password_correct |-> "True", password |-> "absent"]

\* password_entered (lines 156-161): the new password_correct and what is
\* left under the "password" key
password_entered(pw, sec) ==
    IF pw = sec
    THEN [password_correct |-> "True", password |-> "absent"]
    ELSE [password_correct |-> "False", password |-> pw]

\* check_password (lines 151-170): its return value and whether it rendered
\* the password text_input
check_password(sec, correct) ==
    IF sec = "absent" THEN [ok |-> TRUE, widget |-> FALSE]
    ELSE IF correct = "absent" THEN [ok |-> FALSE, widget |-> TRUE]
    ELSE IF correct # "True" THEN [ok |-> FALSE, widget |-> TRUE]
    ELSE [ok |-> TRUE, widget |-> FALSE]

GateInit ==
    /\ secret \in Passwords \cup {"absent"}
    /\ password_correct = "absent" /\ password_key = "absent"
    /\ widget_shown = FALSE /\ app_ran = FALSE /\ last_submit = "absent"
    /\ runs = 0 /\ submits = 0
    /\ gpc = "rerun"
    /\ NormIdle /\ CmpIdle /\ MainIdle

\* one script run, line 259: the main body runs iff check_password() is true;
\* a widget that was not rendered loses its session_state key
ScriptRun ==
    /\ runs < MaxRuns
    /\ LET r == check_password(secret, password_correct)
       IN  /\ app_ran' = r.ok
           /\ widget_shown' = r.widget
           /\ password_key' = IF r.widget THEN password_key ELSE "absent"
    /\ runs' = runs + 1
    /\ gpc' = "idle"
    /\ UNCHANGED << secret, password_correct, last_submit, submits,
                    normVars, cmpVars, mainVars >>

\* the user submits pw in the rendered text_input: on_change runs
\* password_entered, and a rerun follows
Submit ==
    /\ gpc = "idle" /\ widget_shown
    /\ submits < MaxSubmits
    /\ \E pw \in Passwords :
          LET r == password_entered(pw, secret)
          IN  /\ password_correct' = r.password_correct
              /\ password_key' = r.password
              /\ last_submit' = pw
    /\ submits' = submits + 1
    /\ gpc' = "rerun"
    /\ UNCHANGED << secret, widget_shown, app_ran, runs, normVars, cmpVars, mainVars >>

GateNext == ScriptRun \/ Submit

SpecGate == GateInit /\ [][GateNext]_vars

\* C10: the main body runs only with no secret configured or with the latest
\* submission equal to the secret; a wrong latest submission leaves
\* password_correct False and the app blocked; password_correct never goes
\* from True to anything else.
C10_Gate ==
    /\ [](app_ran => (secret = "absent" \/ last_submit = secret))
    /\ []((last_submit \notin {"absent", secret}) =>
              (password_correct = "False" /\ ~app_ran))
    /\ [][password_correct = "True" => password_correct' = "True"]_vars

C10_Witness ==
    /\ app_ran /\ secret # "absent" /\ last_submit = secret
    /\ submits >= 2 /\ runs = MaxRuns

-----------------------------------------------------------------------------
(* Properties of normalize_filename *)

\* the last position of character c in s, 0 when c is not in s
LastIdx(s, c) ==
    IF \E i \in 1..Len(s) : s[i] = c
    THEN CHOOSE i \in 1..Len(s) : s[i] = c /\ \A j \in (i+1)..Len(s) : s[j] # c
    ELSE 0

\* the final path segment of an entry path
FinalSegment(f) == SubSeq(f, LastIdx(f, "/") + 1, Len(f))

\* s without its last '.'-delimited suffix
WithoutLastSuffix(s) ==
    IF LastIdx(s, ".") = 0 THEN s ELSE SubSeq(s, 1, LastIdx(s, ".") - 1)

NoRule == npc = "returned" /\ prefix = <<>> /\ suffix_delimiter = <<>>

\* C7 as stated: with an empty prefix and delimiter the result is the final
\* path segment with its last '.'-delimited suffix removed.
C7_StemOfFinalSegment ==
    NoRule => name_out = WithoutLastSuffix(FinalSegment(filename))

\* only dots precede the last dot of s
OnlyLeadingDots(s) == \A i \in 1..(LastIdx(s, ".") - 1) : s[i] = "."

\* C7 amended: the result is the final path segment with its last
\* '.'-delimited suffix removed, except that a segment in which only dots
\* precede the last dot (".csv", "..csv") is returned whole.
C7_StemUnlessLeadingDots ==
    NoRule =>
        name_out = IF OnlyLeadingDots(FinalSegment(filename))
                   THEN FinalSegment(filename)
                   ELSE WithoutLastSuffix(FinalSegment(filename))

C7_Witness ==
    /\ NoRule
    /\ Len(base) < Len(filename)
    /\ OnlyLeadingDots(base)
    /\ name_out = base

\* C8: a non-empty prefix is removed once and only from a name that starts
\* with it; then a non-empty delimiter that occurs in the name cuts it at the
\* last occurrence, keeping what is before; otherwise the step changes nothing.
C8_PrefixThenLastDelimiter ==
    npc = "returned" =>
        /\ IF prefix # <<>> /\ Len(prefix) <= Len(name_ext)
                /\ \A i \in 1..Len(prefix) : name_ext[i] = prefix[i]
           THEN prefix \o name_pre = name_ext
           ELSE name_pre = name_ext
        /\ IF suffix_delimiter # <<>>
                /\ \E i \in 1..Len(name_pre) : OccursAt(name_pre, suffix_delimiter, i)
           THEN /\ OccursAt(name_pre, suffix_delimiter, Len(name_out) + 1)
                /\ name_out = SubSeq(name_pre, 1, Len(name_out))
                /\ \A i \in (Len(name_out) + 2)..Len(name_pre) :
                      ~OccursAt(name_pre, suffix_delimiter, i)
           ELSE name_out = name_pre

C8_Witness ==
    /\ npc = "returned"
    /\ prefix # <<>> /\ name_pre # name_ext
    /\ suffix_delimiter # <<>>
    /\ Cardinality({i \in 1..Len(name_pre) : OccursAt(name_pre, suffix_delimiter, i)}) >= 2
    /\ name_out # name_pre

====
